---- MODULE Spec2Model ----
(***************************************************************************)
(* Model of server.py: the chat room registry (ChatConnectionManager), the *)
(* chat websocket endpoint, the image upload endpoint, and the call        *)
(* signaling endpoint together with the object the name `manager` is bound *)
(* to when the endpoints run.                                              *)
(*                                                                         *)
(* The server runs on one asyncio event loop: a handler runs without       *)
(* interruption from one await that suspends to the next.  Database calls  *)
(* and the push call are synchronous; the suspension points are the        *)
(* websocket accept, receive and send calls.  An action of the model is    *)
(* one such uninterrupted stretch.                                         *)
(***************************************************************************)
EXTENDS Integers, Sequences, FiniteSets, TLC

\* ------------------------------------------------------------------ bounds
NumConns == 2        \* chat websockets that ever connect
NumChats == 2        \* chat ids a client may name
NumUsers == 2        \* rows of the users table
MaxWrites == 2       \* committed writes (sends, edits, uploads) in one run
MaxClock == 1        \* database clock readings
NumCallConns == 3    \* signaling websockets that ever connect
NumRegConns == 3     \* websockets of the registry specification

None == 0            \* Python None / an absent JSON field

Conns == 1..NumConns
UploadTask == NumConns + 1
Tasks == 1..(NumConns + 1)
ChatIds == 1..NumChats
Users == 1..NumUsers
UserIds == 1..(NumUsers + 1)
MsgIds == 1..MaxWrites
ReplyIds == {None, 1}
SendTexts == {"hi"}
EditTexts == {"hi!"}
PhotoText == "[photo]"
ImageUrl == "/uploads/messages/f"
NoUrl == "None"
NoText == "None"
CallConns == 1..NumCallConns
RegConns == 1..NumRegConns
Bodies == {"offer", "answer"}

\* ------------------------------------------------------------------ helpers
Range(s) == {s[i] : i \in DOMAIN s}

\* list.remove(x): drops the first occurrence of x
RECURSIVE ListRemove(_, _)
ListRemove(s, x) ==
  IF s = <<>> THEN <<>>
  ELSE IF Head(s) = x THEN Tail(s)
  ELSE <<Head(s)>> \o ListRemove(Tail(s), x)

Count(s, x) == Cardinality({i \in DOMAIN s : s[i] = x})

\* members of a room as a set; an absent key has no members
Members(rms, ch) == IF ch \in DOMAIN rms THEN Range(rms[ch]) ELSE {}

\* ------------------------------------------------------------------ state
VARIABLES
  rooms,        \* chat_manager.rooms: chat id -> list of websockets
  messages,     \* the messages table, in insertion order (id = position)
  tokens,       \* users.firebase_token is set, per user
  pc,           \* per task: "new" | "active" | "bcast" | "closed" (uploads: "idle" | "bcast")
  connChat,     \* chat_id the task was given (path parameter)
  connUser,     \* user_id the task was given (path or form parameter)
  alive,        \* the websocket's channel still carries frames
  inbox,        \* per chat websocket: the events written to it, in order
  bq,           \* per task: the rest of the snapshot broadcast_to_room iterates
  bev,          \* per task: the event of its current broadcast
  bmembers,     \* history: members of the room when that broadcast began
  bfail,        \* history: connections whose send failed in that broadcast
  evicted,      \* history: connections a failed send ever removed
  committed,    \* history: the committed writes, in commit order
  last,         \* history: what the step just taken handled, and how it ended
  pushLog,      \* history: push attempts, in order
  expect,       \* registry spec only: the membership joins and leaves imply
  callRooms,    \* manager.rooms of the object the call endpoint uses
  cpc,          \* per signaling websocket: "new" | "active" | "crashed"
  cuser,        \* user_id the signaling websocket was given
  cinbox,       \* per signaling websocket: payloads written to it
  lastRelay     \* history: the relay attempt of the step just taken, if any

chatVars == <<rooms, messages, tokens, pc, connChat, connUser, alive, inbox, bq, bev,
              bmembers, bfail, evicted, committed, last, pushLog>>
callVars == <<callRooms, cpc, cuser, cinbox, lastRelay>>
vars == <<chatVars, expect, callVars>>

\* ------------------------------------------------------------------ history records
\* `last` labels a step that handled an edit, an action that is neither send nor
\* edit, a malformed payload or a failed write with how it ended, and any other
\* step with "none"
\* an entry of the commit history
Write(kind, id, text) == [kind |-> kind, id |-> id, text |-> text]

\* the relay history when the step just taken relayed nothing
NoRelay ==
  [from |-> None, to |-> None, body |-> "none", target |-> None, replaced |-> FALSE,
   olderEnded |-> FALSE, result |-> "none", got |-> {}, senderAfter |-> "none"]

\* ------------------------------------------------------------------ database
\* the chats table holds chat 1, between users 1 and 2 (create_chat)
ChatExists(ch) == ch = 1
ChatUsers(ch) == IF ChatExists(ch) THEN {u \in Users : u <= 2} ELSE {}

\* User.username of a user row
Username(u) == u

\* db.query(Message).get(id) finds a row
HasMessage(msgs, id) == id \in DOMAIN msgs

\* the clock never runs backwards: a new row's timestamp is no earlier than any stored one
LastStamp == IF messages = <<>> THEN 1 ELSE messages[Len(messages)].timestamp
Stamps == LastStamp..MaxClock

NewMessage(text, url, uid, uname, ch, ts, reply) ==
  [id |-> Len(messages) + 1, text |-> text, image_url |-> url, sender_id |-> uid,
   sender_username |-> uname, chat_id |-> ch, timestamp |-> ts, reply_to_id |-> reply]

\* the columns of the messages table that the model keeps (is_read is never used
\* by the endpoints modelled)
MessageColumns ==
  {"id", "text", "image_url", "sender_id", "sender_username", "timestamp", "chat_id",
   "reply_to_id"}

\* the edited flag of a stored row: the table has no such column
PersistedEdited(m) == "is_edited" \in MessageColumns /\ m.is_edited

\* get_chat_messages returns at most this many rows
ListLimit == 100

\* ORDER BY timestamp: rows in ascending timestamp order, rows of equal
\* timestamp in table order
RECURSIVE ByTimestamp(_)
ByTimestamp(rows) ==
  IF rows = <<>> THEN <<>>
  ELSE LET i == CHOOSE x \in DOMAIN rows :
                  \A y \in DOMAIN rows :
                    \/ rows[x].timestamp < rows[y].timestamp
                    \/ rows[x].timestamp = rows[y].timestamp /\ x <= y
       IN <<rows[i]>> \o ByTimestamp(SubSeq(rows, 1, i - 1) \o SubSeq(rows, i + 1, Len(rows)))

\* get_chat_messages: filter by chat, order by timestamp, limit, project
ListMessages(msgs, ch) ==
  LET rows == ByTimestamp(SelectSeq(msgs, LAMBDA m : m.chat_id = ch))
      n == IF Len(rows) < ListLimit THEN Len(rows) ELSE ListLimit
  IN [i \in 1..n |->
        [id |-> rows[i].id, text |-> rows[i].text, sender_username |-> rows[i].sender_username,
         chat_id |-> rows[i].chat_id, timestamp |-> rows[i].timestamp,
         image_url |-> rows[i].image_url, reply_to_text |-> NoText, reply_to_sender |-> None]]

\* the JSON projection of a message that is broadcast; the reply context is looked
\* up by id alone, after the commit; w is the index of the commit it reports in
\* the commit history
Projection(action, msgs, m, edited, w) ==
  [action |-> action, id |-> m.id, text |-> m.text, sender_username |-> m.sender_username,
   chat_id |-> m.chat_id, timestamp |-> m.timestamp, image_url |-> m.image_url,
   is_edited |-> edited,
   reply_to_text |-> IF HasMessage(msgs, m.reply_to_id) THEN msgs[m.reply_to_id].text ELSE NoText,
   reply_to_sender |-> IF HasMessage(msgs, m.reply_to_id)
                       THEN msgs[m.reply_to_id].sender_username ELSE None,
   w |-> w]

\* ------------------------------------------------------------------ ChatConnectionManager
\* (mutant) connect that starts the room list afresh on every join
connectOverwrite(rms, ws, ch) ==
  [x \in DOMAIN rms \cup {ch} |-> IF x = ch THEN <<ws>> ELSE rms[x]]

\* connect: create the room list if absent, then append
connect(rms, ws, ch) ==
  LET r == [x \in DOMAIN rms \cup {ch} |-> IF x \in DOMAIN rms THEN rms[x] ELSE <<>>]
  IN [r EXCEPT ![ch] = Append(@, ws)]

\* (mutant) disconnect that removes nothing
disconnectKeeps(rms, ws, ch) == rms

\* disconnect: remove if the room is known and holds the websocket, else nothing
disconnect(rms, ws, ch) ==
  IF ch \in DOMAIN rms /\ ws \in Range(rms[ch])
  THEN [rms EXCEPT ![ch] = ListRemove(@, ws)]
  ELSE rms

\* (mutant) a snapshot that skips the first connection of the room
SnapshotSkipsFirst(rms, ch) == IF ch \in DOMAIN rms /\ rms[ch] # <<>> THEN Tail(rms[ch]) ELSE <<>>

\* broadcast_to_room: the copy of the room list that the loop iterates
Snapshot(rms, ch) == IF ch \in DOMAIN rms THEN rms[ch] ELSE <<>>

\* no broadcast in progress
NoEvent == [action |-> "none", chat_id |-> None, w |-> None]

\* one await connection.send_text(message) of the broadcast loop of task t: the
\* frame is written, or the send raises and the except clause disconnects k
SendText(t, k, ev, ch, failedSoFar) ==
  IF alive[k]
  THEN /\ inbox' = [inbox EXCEPT ![k] = Append(@, ev)]
       /\ bfail' = [bfail EXCEPT ![t] = failedSoFar]
       /\ UNCHANGED <<rooms, evicted>>
  ELSE /\ rooms' = disconnect(rooms, k, ch)
       /\ evicted' = evicted \cup {k}
       /\ bfail' = [bfail EXCEPT ![t] = failedSoFar \cup {k}]
       /\ UNCHANGED inbox

\* ------------------------------------------------------------------ send_push_notification
\* (mutant) push targets that include the sender and the members without a token
PushTargetsAll(ch, sender) ==
  LET RECURSIVE Asc(_)
      Asc(T) == IF T = {} THEN <<>>
                ELSE LET m == CHOOSE x \in T : \A y \in T : x <= y
                     IN <<m>> \o Asc(T \ {m})
  IN Asc(ChatUsers(ch))

\* the users a push is attempted for, in order: the chat's other members with a token
PushTargets(ch, sender) ==
  LET S == {u \in ChatUsers(ch) : u # sender /\ tokens[u]}
      RECURSIVE Asc(_)
      Asc(T) == IF T = {} THEN <<>>
                ELSE LET m == CHOOSE x \in T : \A y \in T : x <= y
                     IN <<m>> \o Asc(T \ {m})
  IN Asc(S)

\* (mutant) a push after the broadcast of any event, edits included
PushAfterAnyEvent(sender, ev) ==
  IF sender \in Users
  THEN LET T == PushTargets(ev.chat_id, sender)
       IN [i \in 1..Len(T) |-> [w |-> ev.w, to |-> T[i]]]
  ELSE <<>>

\* what the handler does after broadcast_to_room returns: a websocket send pushes
\* (action == "send"), an upload pushes if its user row exists, an edit does not
PushAfter(sender, ev) ==
  IF ev.action = "new_message" /\ sender \in Users
  THEN LET T == PushTargets(ev.chat_id, sender)
       IN [i \in 1..Len(T) |-> [w |-> ev.w, to |-> T[i]]]
  ELSE <<>>

\* await send_push_notification(...): one attempt per target, each of which
\* succeeds or raises inside its own try; the outcome is kept in the push history
Push(sender, ev) ==
  LET A == PushAfter(sender, ev) IN
  \E oks \in [DOMAIN A -> BOOLEAN] :
    pushLog' = pushLog \o [i \in DOMAIN A |-> [w |-> A[i].w, to |-> A[i].to, ok |-> oks[i]]]

\* where a task waits once its handler is through
Rest(t) == IF t = UploadTask THEN "idle" ELSE "active"

\* await chat_manager.broadcast_to_room(chat_id, ...) up to its first suspension:
\* the room list is copied and the first send is made; with nobody in the room
\* the handler runs on through the push without suspending
StartBroadcast(t, ch, sender, ev) ==
  LET snap == Snapshot(rooms, ch) IN
  /\ IF snap = <<>>
     THEN /\ pc' = [pc EXCEPT ![t] = Rest(t)]
          /\ Push(sender, ev)
          /\ UNCHANGED <<rooms, inbox, evicted, bq, bev, bmembers, bfail, connChat, connUser>>
     ELSE /\ pc' = [pc EXCEPT ![t] = "bcast"]
          /\ connChat' = [connChat EXCEPT ![t] = ch]
          /\ connUser' = [connUser EXCEPT ![t] = sender]
          /\ bq' = [bq EXCEPT ![t] = Tail(snap)]
          /\ bev' = [bev EXCEPT ![t] = ev]
          /\ bmembers' = [bmembers EXCEPT ![t] = Members(rooms, ch)]
          /\ SendText(t, Head(snap), ev, ch, {})
          /\ UNCHANGED pushLog

\* (mutant) a loop over the room list itself: a connection that has left since
\* the broadcast began is passed over
BroadcastStepLive(t) ==
  /\ pc[t] = "bcast"
  /\ bq[t] # <<>>
  /\ IF Head(bq[t]) \in Members(rooms, connChat[t])
     THEN SendText(t, Head(bq[t]), bev[t], connChat[t], bfail[t])
     ELSE UNCHANGED <<rooms, inbox, evicted, bfail>>
  /\ bq' = [bq EXCEPT ![t] = Tail(@)]
  /\ UNCHANGED <<messages, tokens, pc, connChat, connUser, alive, bev, bmembers,
                 committed, pushLog, expect, callVars>>
  /\ last' = "none"

\* the broadcast loop resumes and sends to the next connection of the snapshot
BroadcastStep(t) ==
  /\ pc[t] = "bcast"
  /\ bq[t] # <<>>
  /\ SendText(t, Head(bq[t]), bev[t], connChat[t], bfail[t])
  /\ bq' = [bq EXCEPT ![t] = Tail(@)]
  /\ UNCHANGED <<messages, tokens, pc, connChat, connUser, alive, bev, bmembers,
                 committed, pushLog, expect, callVars>>
  /\ last' = "none"

\* broadcast_to_room returns; the push runs (synchronously) and the handler goes
\* back to receive_text, or the upload request returns
BroadcastDone(t) ==
  /\ pc[t] = "bcast"
  /\ bq[t] = <<>>
  /\ pc' = [pc EXCEPT ![t] = Rest(t)]
  /\ Push(connUser[t], bev[t])
  /\ bev' = [bev EXCEPT ![t] = NoEvent]
  /\ bmembers' = [bmembers EXCEPT ![t] = {}]
  /\ bfail' = [bfail EXCEPT ![t] = {}]
  /\ connChat' = IF t = UploadTask THEN [connChat EXCEPT ![t] = None] ELSE connChat
  /\ connUser' = IF t = UploadTask THEN [connUser EXCEPT ![t] = None] ELSE connUser
  /\ UNCHANGED <<rooms, messages, tokens, alive, inbox, bq,
                 evicted, committed, expect, callVars>>
  /\ last' = "none"

\* ------------------------------------------------------------------ websocket_endpoint

\* await chat_manager.connect(websocket, chat_id)
WsConnect(c, ch, u) ==
  /\ pc[c] = "new"
  /\ pc' = [pc EXCEPT ![c] = "active"]
  /\ rooms' = connect(rooms, c, ch)
  /\ connChat' = [connChat EXCEPT ![c] = ch]
  /\ connUser' = [connUser EXCEPT ![c] = u]
  /\ UNCHANGED <<messages, tokens, alive, inbox, bq, bev, bmembers, bfail, evicted,
                 committed, pushLog, expect, callVars>>
  /\ last' = "none"

\* the client goes away or the channel breaks: later sends on it raise
ChannelFail(c) ==
  /\ pc[c] \in {"active", "bcast"}
  /\ alive[c]
  /\ alive' = [alive EXCEPT ![c] = FALSE]
  /\ UNCHANGED <<rooms, messages, tokens, pc, connChat, connUser, inbox, bq, bev,
                 bmembers, bfail, evicted, committed, pushLog, expect, callVars>>
  /\ last' = "none"

\* the handler ends through one of its except clauses: disconnect, then return
WsClose(c) ==
  /\ rooms' = disconnect(rooms, c, connChat[c])
  /\ pc' = [pc EXCEPT ![c] = "closed"]
  /\ alive' = [alive EXCEPT ![c] = FALSE]

\* receive_text raises WebSocketDisconnect
WsDisconnect(c) ==
  /\ pc[c] = "active"
  /\ ~alive[c]
  /\ WsClose(c)
  /\ UNCHANGED <<messages, tokens, connChat, connUser, inbox, bq, bev, bmembers,
                 bfail, evicted, committed, pushLog, expect, callVars>>
  /\ last' = "none"

\* the handler's task is cancelled while it waits in receive_text (server
\* shutdown): CancelledError is not an Exception, so neither except clause runs,
\* only the finally; the server then closes the channel
WsCancel(c) ==
  /\ pc[c] = "active"
  /\ pc' = [pc EXCEPT ![c] = "closed"]
  /\ alive' = [alive EXCEPT ![c] = FALSE]
  /\ last' = "none"
  /\ UNCHANGED <<rooms, messages, tokens, connChat, connUser, inbox, bq, bev, bmembers,
                 bfail, evicted, committed, pushLog, expect, callVars>>

\* json.loads raises, or the decoded value has no .get: except Exception
WsMalformed(c) ==
  /\ pc[c] = "active"
  /\ WsClose(c)
  /\ last' = "malformed"
  /\ UNCHANGED <<messages, tokens, connChat, connUser, inbox, bq, bev, bmembers,
                 bfail, evicted, committed, pushLog, expect, callVars>>

\* sender = db.query(User).get(user_id); if not sender: continue
WsNoSender(c) ==
  /\ pc[c] = "active"
  /\ connUser[c] \notin Users
  /\ last' = "none"
  /\ UNCHANGED <<rooms, messages, tokens, pc, connChat, connUser, alive, inbox, bq, bev,
                 bmembers, bfail, evicted, committed, pushLog, expect, callVars>>

\* action == "send": insert, commit, refresh, build the event, broadcast
WsSend(c, text, reply) ==
  /\ pc[c] = "active"
  /\ connUser[c] \in Users
  /\ Len(committed) < MaxWrites
  /\ \E ts \in Stamps :
       LET m == NewMessage(text, NoUrl, connUser[c], Username(connUser[c]),
                           connChat[c], ts, reply)
           msgs == Append(messages, m)
           w == Len(committed) + 1
       IN /\ messages' = msgs
          /\ committed' = Append(committed, Write("send", m.id, text))
          /\ StartBroadcast(c, connChat[c], connUser[c], Projection("new_message", msgs, m, FALSE, w))
  /\ last' = "none"
  /\ UNCHANGED <<tokens, alive, expect, callVars>>

\* (mutant) an edit that also stamps the row with a later time
EditTextRestamps(msgs, mid, text) ==
  [msgs EXCEPT ![mid].text = text, ![mid].timestamp = MaxClock + 1]

\* message_to_edit.text = new_text; db.commit(): no other column is assigned
EditText(msgs, mid, text) == [msgs EXCEPT ![mid].text = text]

\* (mutant) an edit check that forgets the sender
EditAllowedAnySender(c, mid) == HasMessage(messages, mid)

\* if message_to_edit and message_to_edit.sender_id == user_id
EditAllowed(c, mid) == HasMessage(messages, mid) /\ messages[mid].sender_id = connUser[c]

\* action == "edit": change the text of an own message, commit, broadcast;
\* otherwise nothing is broadcast and the loop continues
WsEdit(c, mid, text) ==
  /\ pc[c] = "active"
  /\ connUser[c] \in Users
  /\ IF EditAllowed(c, mid)
     THEN /\ Len(committed) < MaxWrites
          /\ LET msgs == EditText(messages, mid, text)
                 w == Len(committed) + 1
             IN /\ messages' = msgs
                /\ committed' = Append(committed, Write("edit", mid, text))
                /\ StartBroadcast(c, connChat[c], connUser[c],
                                  Projection("edit_message", msgs, msgs[mid], TRUE, w))
          /\ last' = "edit"
     ELSE /\ last' = "edit_dropped"
          /\ UNCHANGED <<rooms, messages, pc, connChat, connUser, inbox, bq, bev,
                         bmembers, bfail, evicted, committed, pushLog>>
  /\ UNCHANGED <<tokens, alive, expect, callVars>>

\* (mutant) an unknown action that ends the connection like a malformed payload
WsOtherCloses(c) ==
  /\ pc[c] = "active"
  /\ connUser[c] \in Users
  /\ WsClose(c)
  /\ last' = "other"
  /\ UNCHANGED <<messages, tokens, connChat, connUser, inbox, bq, bev, bmembers,
                 bfail, evicted, committed, pushLog, expect, callVars>>

\* any other action: message_to_broadcast stays None
WsOther(c) ==
  /\ pc[c] = "active"
  /\ connUser[c] \in Users
  /\ last' = "other"
  /\ UNCHANGED <<rooms, messages, tokens, pc, connChat, connUser, alive, inbox, bq, bev,
                 bmembers, bfail, evicted, committed, pushLog, expect, callVars>>

\* (mutant) a failed commit whose event is broadcast all the same
WsPersistFailBroadcasts(c) ==
  /\ pc[c] = "active"
  /\ connUser[c] \in Users
  /\ LET m == NewMessage("hi", NoUrl, connUser[c], Username(connUser[c]), connChat[c],
                         LastStamp, None)
     IN StartBroadcast(c, connChat[c], connUser[c],
                       Projection("new_message", Append(messages, m), m, FALSE,
                                  Len(committed) + 1))
  /\ last' = "persist_failed"
  /\ UNCHANGED <<messages, tokens, alive, committed, expect, callVars>>

\* db.commit() of a send or of an allowed edit raises: except Exception
WsPersistFail(c) ==
  /\ pc[c] = "active"
  /\ connUser[c] \in Users
  /\ WsClose(c)
  /\ last' = "persist_failed"
  /\ UNCHANGED <<messages, tokens, connChat, connUser, inbox, bq, bev, bmembers,
                 bfail, evicted, committed, pushLog, expect, callVars>>

\* ------------------------------------------------------------------ send_image_message
\* POST /chats/{chat_id}/send_image/: store the file, insert, commit, broadcast
Upload(ch, u) ==
  /\ pc[UploadTask] = "idle"
  /\ Len(committed) < MaxWrites
  /\ \E ts \in Stamps :
       LET m == NewMessage(PhotoText, ImageUrl, u, Username(u), ch, ts, None)
           msgs == Append(messages, m)
           w == Len(committed) + 1
       IN /\ messages' = msgs
          /\ committed' = Append(committed, Write("upload", m.id, PhotoText))
          /\ StartBroadcast(UploadTask, ch, u, Projection("new_message", msgs, m, FALSE, w))
  /\ last' = "none"
  /\ UNCHANGED <<tokens, alive, expect, callVars>>

\* db.commit() of the upload raises: the request fails, nothing is broadcast
UploadPersistFail ==
  /\ pc[UploadTask] = "idle"
  /\ last' = "persist_failed"
  /\ UNCHANGED <<rooms, messages, tokens, pc, connChat, connUser, alive, inbox, bq, bev,
                 bmembers, bfail, evicted, committed, pushLog, expect, callVars>>

\* ------------------------------------------------------------------ specification
Init ==
  /\ rooms = <<>>
  /\ messages = <<>>
  /\ tokens = [u \in Users |-> u # 2]
  /\ pc = [t \in Tasks |-> IF t = UploadTask THEN "idle" ELSE "new"]
  /\ connChat = [t \in Tasks |-> None]
  /\ connUser = [t \in Tasks |-> None]
  /\ alive = [c \in Conns |-> TRUE]
  /\ inbox = [c \in Conns |-> <<>>]
  /\ bq = [t \in Tasks |-> <<>>]
  /\ bev = [t \in Tasks |-> NoEvent]
  /\ bmembers = [t \in Tasks |-> {}]
  /\ bfail = [t \in Tasks |-> {}]
  /\ evicted = {}
  /\ committed = <<>>
  /\ last = "none"
  /\ pushLog = <<>>
  /\ expect = [ch \in ChatIds |-> {}]
  /\ callRooms = <<>>
  /\ cpc = [k \in CallConns |-> "new"]
  /\ cuser = [k \in CallConns |-> None]
  /\ cinbox = [k \in CallConns |-> <<>>]
  /\ lastRelay = NoRelay

Next ==
  \/ \E c \in Conns, ch \in ChatIds, u \in UserIds : WsConnect(c, ch, u)
  \/ \E c \in Conns : ChannelFail(c)
  \/ \E c \in Conns : WsDisconnect(c)
  \/ \E c \in Conns : WsCancel(c)
  \/ \E c \in Conns : WsMalformed(c)
  \/ \E c \in Conns : WsNoSender(c)
  \/ \E c \in Conns, text \in SendTexts, reply \in ReplyIds : WsSend(c, text, reply)
  \/ \E c \in Conns, mid \in MsgIds, text \in EditTexts : WsEdit(c, mid, text)
  \/ \E c \in Conns : WsOther(c)
  \/ \E c \in Conns : WsPersistFail(c)
  \/ \E ch \in ChatIds, u \in Users : Upload(ch, u)
  \/ UploadPersistFail
  \/ \E t \in Tasks : BroadcastStep(t)
  \/ \E t \in Tasks : BroadcastDone(t)

Spec == Init /\ [][Next]_vars

\* ------------------------------------------------------------------ a database with history
\* The database is a file that outlives the server process: the server may start
\* with messages stored by an earlier run.  Here chat 1 holds one message of each
\* of its two users.
StoredMessages ==
  << [id |-> 1, text |-> "old", image_url |-> NoUrl, sender_id |-> 1,
      sender_username |-> Username(1), chat_id |-> 1, timestamp |-> 1, reply_to_id |-> None],
     [id |-> 2, text |-> "old", image_url |-> NoUrl, sender_id |-> 2,
      sender_username |-> Username(2), chat_id |-> 1, timestamp |-> 1, reply_to_id |-> None] >>

StoredInit ==
  /\ rooms = <<>>
  /\ messages = StoredMessages
  /\ tokens = [u \in Users |-> u # 2]
  /\ pc = [t \in Tasks |-> IF t = UploadTask THEN "idle" ELSE "new"]
  /\ connChat = [t \in Tasks |-> None]
  /\ connUser = [t \in Tasks |-> None]
  /\ alive = [c \in Conns |-> TRUE]
  /\ inbox = [c \in Conns |-> <<>>]
  /\ bq = [t \in Tasks |-> <<>>]
  /\ bev = [t \in Tasks |-> NoEvent]
  /\ bmembers = [t \in Tasks |-> {}]
  /\ bfail = [t \in Tasks |-> {}]
  /\ evicted = {}
  /\ committed = <<>>
  /\ last = "none"
  /\ pushLog = <<>>
  /\ expect = [ch \in ChatIds |-> {}]
  /\ callRooms = <<>>
  /\ cpc = [k \in CallConns |-> "new"]
  /\ cuser = [k \in CallConns |-> None]
  /\ cinbox = [k \in CallConns |-> <<>>]
  /\ lastRelay = NoRelay

\* the steps that read or write the messages table, and the steps their handlers
\* and connections need to run
StoredNext ==
  \/ \E c \in Conns, ch \in ChatIds, u \in UserIds : WsConnect(c, ch, u)
  \/ \E c \in Conns : ChannelFail(c)
  \/ \E c \in Conns : WsDisconnect(c)
  \/ \E c \in Conns, text \in SendTexts, reply \in ReplyIds : WsSend(c, text, reply)
  \/ \E c \in Conns, mid \in MsgIds, text \in EditTexts : WsEdit(c, mid, text)
  \/ \E ch \in ChatIds, u \in Users : Upload(ch, u)
  \/ \E t \in Tasks : BroadcastStep(t)
  \/ \E t \in Tasks : BroadcastDone(t)

StoredSpec == StoredInit /\ [][StoredNext]_vars

\* ------------------------------------------------------------------ registry alone
\* ChatConnectionManager driven by arbitrary joins and leaves.  A websocket joins
\* only while it is in no room (the endpoint connects each websocket once); a
\* leave may name any websocket and any room, known or not.
InSomeRoom(c) == \E ch \in DOMAIN rooms : c \in Range(rooms[ch])

RegJoin(c, ch) ==
  /\ ~InSomeRoom(c)
  /\ rooms' = connect(rooms, c, ch)
  /\ expect' = [expect EXCEPT ![ch] = @ \cup {c}]
  /\ last' = "join"
  /\ UNCHANGED <<messages, tokens, pc, connChat, connUser, alive, inbox, bq, bev,
                 bmembers, bfail, evicted, committed, pushLog, callVars>>

RegLeave(c, ch) ==
  /\ rooms' = disconnect(rooms, c, ch)
  /\ expect' = [expect EXCEPT ![ch] = @ \ {c}]
  /\ last' = IF ch \notin DOMAIN rooms THEN "leave_unknown"
             ELSE IF c \notin Range(rooms[ch]) THEN "leave_nonmember" ELSE "leave"
  /\ UNCHANGED <<messages, tokens, pc, connChat, connUser, alive, inbox, bq, bev,
                 bmembers, bfail, evicted, committed, pushLog, callVars>>

RegNext ==
  \/ \E c \in RegConns, ch \in ChatIds : RegJoin(c, ch)
  \/ \E c \in RegConns, ch \in ChatIds : RegLeave(c, ch)

RegSpec == Init /\ [][RegNext]_vars

\* ------------------------------------------------------------------ websocket_call_endpoint
\* The endpoint uses the module-level name `manager`.  The module binds it twice;
\* when the endpoint runs it holds an instance of the class ConnectionManager
\* defined last, which has rooms, connect(websocket, chat_id),
\* disconnect(websocket, chat_id) and broadcast_to_room, and nothing else.
ManagerMethods == {"connect", "disconnect", "broadcast_to_room"}

\* parameters of manager.disconnect besides self
ManagerDisconnectParams == <<"websocket", "chat_id">>

\* manager.disconnect(user_id): one argument for two parameters
DisconnectCallRaises == Len(ManagerDisconnectParams) # 1

\* manager.send_personal_message(...): the attribute lookup
RelayCallRaises == "send_personal_message" \notin ManagerMethods

\* the signaling websockets of user r whose task is still receiving, oldest first
ActiveFor(r) ==
  IF r \in DOMAIN callRooms
  THEN SelectSeq(callRooms[r], LAMBDA k : cpc[k] = "active")
  ELSE <<>>

\* the connection registered last for r among those, or None
Newest(r) == IF ActiveFor(r) = <<>> THEN None ELSE ActiveFor(r)[Len(ActiveFor(r))]

\* Newest(r) was registered after another connection of user r
Replaced(r) == Newest(r) # None /\ callRooms[r][1] # Newest(r)

\* an earlier connection of user r has ended
OlderEnded(r) ==
  /\ Newest(r) # None
  /\ \E i \in DOMAIN callRooms[r] :
       /\ cpc[callRooms[r][i]] = "crashed"
       /\ \E j \in DOMAIN callRooms[r] : i < j /\ callRooms[r][j] = Newest(r)

\* the entry of the relay history: whom the payload named (to), the connection a
\* relay to that user is for (target), who was sent the payload (got), how the
\* relay call ended (result) and where the sender's task went (senderAfter)
Relay(k, r, body, result, got, after) ==
  [from |-> k, to |-> r, body |-> body, target |-> Newest(r), replaced |-> Replaced(r),
   olderEnded |-> OlderEnded(r), result |-> result, got |-> got, senderAfter |-> after]

\* await manager.connect(websocket, user_id): the websocket is appended to rooms[user_id]
CallConnect(k, u) ==
  /\ cpc[k] = "new"
  /\ cpc' = [cpc EXCEPT ![k] = "active"]
  /\ cuser' = [cuser EXCEPT ![k] = u]
  /\ callRooms' = connect(callRooms, k, u)
  /\ lastRelay' = NoRelay
  /\ UNCHANGED <<chatVars, expect, cinbox>>

\* the except clauses call manager.disconnect(user_id); the call raises TypeError,
\* which leaves the handler; the registry is as it was
CallTeardown(k) ==
  /\ DisconnectCallRaises
  /\ cpc' = [cpc EXCEPT ![k] = "crashed"]
  /\ UNCHANGED callRooms

\* receive_text raises WebSocketDisconnect
CallDisconnect(k) ==
  /\ cpc[k] = "active"
  /\ CallTeardown(k)
  /\ lastRelay' = NoRelay
  /\ UNCHANGED <<chatVars, expect, cuser, cinbox>>

\* json.loads raises: except Exception
CallMalformed(k) ==
  /\ cpc[k] = "active"
  /\ CallTeardown(k)
  /\ lastRelay' = NoRelay
  /\ UNCHANGED <<chatVars, expect, cuser, cinbox>>

\* a payload without recipient_id (or with a falsy one): a warning is printed
CallNoRecipient(k, body) ==
  /\ cpc[k] = "active"
  /\ lastRelay' = [NoRelay EXCEPT !.from = k, !.body = body, !.result = "dropped",
                                  !.senderAfter = "active"]
  /\ UNCHANGED <<chatVars, expect, callRooms, cpc, cuser, cinbox>>

\* a payload with recipient_id r: await manager.send_personal_message(data_str, r)
\* raises AttributeError, caught by except Exception, whose handler ends as above
CallRelay(k, r, body) ==
  /\ cpc[k] = "active"
  /\ RelayCallRaises
  /\ CallTeardown(k)
  /\ lastRelay' = Relay(k, r, body, "raised", {}, "crashed")
  /\ UNCHANGED <<chatVars, expect, cuser, cinbox>>

CallNext ==
  \/ \E k \in CallConns, u \in UserIds : CallConnect(k, u)
  \/ \E k \in CallConns : CallDisconnect(k)
  \/ \E k \in CallConns : CallMalformed(k)
  \/ \E k \in CallConns, body \in Bodies : CallNoRecipient(k, body)
  \/ \E k \in CallConns, r \in UserIds, body \in Bodies : CallRelay(k, r, body)

CallSpec == Init /\ [][CallNext]_vars

\* ------------------------------------------------------------------ properties
\* a task whose broadcast loop has gone through its whole snapshot
LoopDone(t) == pc[t] = "bcast" /\ bq[t] = <<>>

\* each room lists exactly the connections the joins and leaves imply, each once
MembershipAsImplied ==
  \A ch \in ChatIds :
    /\ Members(rooms, ch) = expect[ch]
    /\ ch \in DOMAIN rooms => Len(rooms[ch]) = Cardinality(expect[ch])

\* a leave of a non-member or of an unknown room leaves the registry as it was
IdleLeaveIsNoop ==
  last' \in {"leave_unknown", "leave_nonmember"} => rooms' = rooms

\* C1: after any sequence of joins and leaves, each room's members are exactly the
\* connections obtained by applying the joins and leaves in order (no phantom
\* member, no left connection remaining), and a leave of a non-member or of an
\* unknown room is a no-op.
RegistryMembership == []MembershipAsImplied /\ [][IdleLeaveIsNoop]_vars

\* C1 witness: a leave of a non-member has just run, one room holds two
\* connections and another room has been joined and left.
RegistryMembershipWitness ==
  /\ last = "leave_nonmember"
  /\ \E ch \in DOMAIN rooms : Len(rooms[ch]) = 2
  /\ \E ch \in DOMAIN rooms : rooms[ch] = <<>>

\* the outcome of a broadcast in which exactly one send failed; a task that is
\* not broadcasting has no sends left over (a failed send never ends the loop)
OneFailureOutcome ==
  \A t \in Tasks :
    /\ pc[t] # "bcast" => bq[t] = <<>> /\ bfail[t] = {}
    /\ (LoopDone(t) /\ Cardinality(bfail[t]) = 1) =>
         /\ Cardinality({k \in Conns : Count(inbox[k], bev[t]) = 1})
              = Cardinality(bmembers[t]) - 1
         /\ \A k \in Conns : Count(inbox[k], bev[t]) = 1 <=> k \in bmembers[t] \ bfail[t]
         /\ \A k \in Conns : Count(inbox[k], bev[t]) <= 1
         /\ bfail[t] \cap Members(rooms, connChat[t]) = {}

\* a broadcast that begins has no connection among its targets that a failed
\* send removed before
LaterBroadcastSkipsEvicted ==
  \A t \in Tasks :
    (pc[t] # "bcast" /\ pc'[t] = "bcast") =>
      (bmembers'[t] \cup Range(bq'[t]) \cup bfail'[t]) \cap evicted = {}

\* C2: a broadcast to N members in which exactly one member's send failed
\* delivered the event once to each of the other N-1 members and to nobody
\* else, the failing member is out of the room, the failure did not end the
\* broadcast or reach its caller, and no broadcast that begins later sends to a
\* connection a failed send removed.
BroadcastOneFailure == []OneFailureOutcome /\ [][LaterBroadcastSkipsEvicted]_vars

\* C2 witness: a broadcast to at least two members is through, with one failure.
BroadcastOneFailureWitness ==
  \E t \in Tasks :
    /\ LoopDone(t)
    /\ Cardinality(bfail[t]) = 1
    /\ Cardinality(bmembers[t]) >= 2

\* C3: every connection receives the events of its room in the order in which
\* their writes were committed.
CommitOrderDelivery ==
  \A c \in Conns : \A i, j \in DOMAIN inbox[c] :
    i < j => inbox[c][i].w < inbox[c][j].w

\* C4 as claimed: once the broadcast of a send is through, its event has been
\* delivered exactly once to every connection that was in the room when the
\* broadcast began.
SendReachesEveryMember ==
  \A c \in Conns :
    (LoopDone(c) /\ bev[c].action = "new_message") =>
      \A k \in bmembers[c] : Count(inbox[k], bev[c]) = 1

\* C4 as amended: for a send by an existing user whose write committed, the
\* message is persisted with the connection's chat and user and the text sent,
\* and the new_message event carrying its projection is delivered exactly once
\* to every connection that was in the room when the broadcast began and whose
\* send did not fail (the sender's own connection included), and to no other.
SendBroadcast ==
  \A c \in Conns :
    (LoopDone(c) /\ bev[c].action = "new_message") =>
      LET ev == bev[c] IN
      /\ connUser[c] \in Users
      /\ ev.id \in DOMAIN messages
      /\ messages[ev.id].chat_id = connChat[c]
      /\ messages[ev.id].sender_id = connUser[c]
      /\ ev.w \in DOMAIN committed
      /\ committed[ev.w].kind = "send" /\ committed[ev.w].id = ev.id
      /\ committed[ev.w].text \in SendTexts /\ ev.text = committed[ev.w].text
      /\ \/ messages[ev.id].text = ev.text
         \/ \E w2 \in DOMAIN committed :
              w2 > ev.w /\ committed[w2].kind = "edit" /\ committed[w2].id = ev.id
      /\ ev.chat_id = connChat[c] /\ ev.sender_username = Username(connUser[c])
      /\ ev.is_edited = FALSE
      /\ \A k \in Conns :
           Count(inbox[k], ev) = IF k \in bmembers[c] \ bfail[c] THEN 1 ELSE 0

\* C4 witness: the broadcast of a send to a room of at least two, the sender
\* among them, is through without a failure.
SendBroadcastWitness ==
  \E c \in Conns :
    /\ LoopDone(c) /\ bev[c].action = "new_message"
    /\ c \in bmembers[c]
    /\ Cardinality(bmembers[c]) >= 2
    /\ bfail[c] = {}

\* the target of an edit does not exist or was sent by another user
RejectedEdit(c, mid) ==
  mid \notin DOMAIN messages \/ messages[mid].sender_id # connUser[c]

\* what a step that handles such an edit (or an action of a connection whose
\* user has no row) leaves alone
RejectedEditStep ==
  \A c \in Conns, mid \in MsgIds, text \in EditTexts :
    ((WsEdit(c, mid, text) /\ RejectedEdit(c, mid)) \/ WsNoSender(c)) =>
      /\ messages' = messages
      /\ committed' = committed
      /\ inbox' = inbox
      /\ bq' = bq /\ bev' = bev
      /\ rooms' = rooms
      /\ pushLog' = pushLog
      /\ pc' = pc /\ pc'[c] = "active"

\* C5: an edit whose target does not exist or was sent by another user changes
\* no persisted message, starts no broadcast, delivers nothing to any room, and
\* leaves the connection Active.
RejectedEditChangesNothing == [][RejectedEditStep]_vars

\* C5 witness: an edit has just been dropped, on a connection of an existing
\* user, while a message of another sender is stored.
RejectedEditWitness ==
  /\ last = "edit_dropped"
  /\ \E c \in Conns :
       /\ pc[c] = "active" /\ connUser[c] \in Users
       /\ \E mid \in DOMAIN messages : messages[mid].sender_id # connUser[c]

\* an event reports a write of the commit history, with its message and text
ReportsCommit(e) ==
  /\ e.w \in DOMAIN committed
  /\ committed[e.w].id = e.id
  /\ committed[e.w].text = e.text
  /\ committed[e.w].kind = "edit" <=> e.action = "edit_message"
  /\ e.id \in DOMAIN messages

\* every event delivered, or being delivered, reports a committed write
DeliveredIsCommitted ==
  /\ \A c \in Conns : \A i \in DOMAIN inbox[c] : ReportsCommit(inbox[c][i])
  /\ \A t \in Tasks : pc[t] = "bcast" => ReportsCommit(bev[t])

\* a step in which a write fails delivers nothing and starts no broadcast
FailedWriteIsSilent ==
  last' = "persist_failed" =>
    inbox' = inbox /\ bq' = bq /\ bev' = bev /\ messages' = messages

\* C6: every event broadcast corresponds to a write committed before, and when
\* the write of an action fails no event of that action is delivered to anyone.
DurableBeforeDelivery == []DeliveredIsCommitted /\ [][FailedWriteIsSilent]_vars

\* C6 witness: a write has just failed, after some event had been delivered.
DurableBeforeDeliveryWitness ==
  /\ last = "persist_failed"
  /\ \E c \in Conns : inbox[c] # <<>>

\* C7: once a second signaling connection has registered for a user, a relay
\* addressed to that user is delivered to the new connection and to no other.
RelayReachesReplacement ==
  lastRelay.replaced => lastRelay.got = {lastRelay.target}

\* C8: a relay to a user with a registered signaling connection is delivered to
\* exactly that connection, verbatim, and reports Delivered.
RelayDeliversVerbatim ==
  (lastRelay.to # None /\ lastRelay.target # None) =>
    /\ lastRelay.result = "Delivered"
    /\ lastRelay.got = {lastRelay.target}
    /\ cinbox[lastRelay.target] # <<>>
    /\ cinbox[lastRelay.target][Len(cinbox[lastRelay.target])]
         = [recipient_id |-> lastRelay.to, body |-> lastRelay.body]

\* C9: a relay to a user without an active signaling connection yields
\* NotConnected without an exception, delivers nothing, and leaves the sender
\* Active.
RelayToAbsentKeepsSender ==
  (lastRelay.to # None /\ lastRelay.target = None) =>
    /\ lastRelay.result = "NotConnected"
    /\ lastRelay.got = {}
    /\ lastRelay.senderAfter = "active"

\* C10: after an older connection of a user has closed while a newer one is
\* registered, the slot is still the newer connection's: a relay to the user
\* reaches the newer connection.
CloseKeepsNewerSlot ==
  lastRelay.olderEnded => lastRelay.got = {lastRelay.target}

\* the write a step labelled as an edit has just committed
LastWrite == committed'[Len(committed')]

\* what a successful edit leaves alone: every column but the text of the row it
\* names, every other row, and the place of every row in the listing of each chat
EditFrame ==
  last' = "edit" =>
    LET mid == LastWrite.id
        text == LastWrite.text
    IN /\ LastWrite.kind = "edit"
       /\ DOMAIN messages' = DOMAIN messages
       /\ \A id \in DOMAIN messages :
            messages'[id] = IF id = mid THEN [messages[id] EXCEPT !.text = text]
                            ELSE messages[id]
       /\ \A ch \in ChatIds :
            LET L == ListMessages(messages, ch)
                L2 == ListMessages(messages', ch)
            IN /\ Len(L2) = Len(L)
               /\ \A i \in DOMAIN L :
                    L2[i] = IF L[i].id = mid THEN [L[i] EXCEPT !.text = text] ELSE L[i]

\* C11: a successful edit changes the text of the message and nothing else of
\* it (identifier, sender, chat and timestamp stay), changes no other message,
\* and the listing of the chat shows the new text at the message's old position.
EditKeepsIdentityAndPosition == [][EditFrame]_vars

\* C11 witness: an edit of the first of two messages of a chat has just been
\* committed, and the listing shows the new text first.
EditKeepsIdentityAndPositionWitness ==
  /\ last = "edit"
  /\ Len(ListMessages(messages, 1)) >= 2
  /\ ListMessages(messages, 1)[1].text \in EditTexts
  /\ ListMessages(messages, 1)[2].text \notin EditTexts

\* C12: the stored edited flag of a message is true exactly when an edit of the
\* message has been committed.
EditedFlagPersisted ==
  \A id \in DOMAIN messages :
    PersistedEdited(messages[id]) <=>
      \E w \in DOMAIN committed : committed[w].kind = "edit" /\ committed[w].id = id

\* C13: a chat connection that is closed, by whatever path, is in no room.
ClosedLeavesRoom ==
  \A c \in Conns : pc[c] = "closed" => ~InSomeRoom(c)

\* C14: a step that handles a malformed payload ends no task and leaves the
\* registry as it was: the connection stays Active and in its room.
MalformedKeepsConnection ==
  [][last' = "malformed" => (pc' = pc /\ rooms' = rooms)]_vars

\* C15: the registry holds no entry for a room without members.
NoEmptyRoomEntry ==
  \A ch \in DOMAIN rooms : rooms[ch] # <<>>

\* C16: the push is detached from the handler: the step in which a task goes
\* from its broadcast back to receiving makes no push attempt.
PushDetached ==
  [][\A c \in Conns : (pc[c] = "bcast" /\ pc'[c] = "active") => pushLog' = pushLog]_vars

\* the broadcast of write w is not in progress
BroadcastOver(w) == \A t \in Tasks : pc[t] = "bcast" => bev[t].w # w

\* every push attempt is for a committed send or upload whose broadcast is over
PushedIsBroadcast ==
  \A i \in DOMAIN pushLog :
    /\ pushLog[i].w \in DOMAIN committed
    /\ committed[pushLog[i].w].kind \in {"send", "upload"}
    /\ BroadcastOver(pushLog[i].w)

\* the step ends the handling of a send or an upload: it commits one to a room
\* without connections, or it ends the broadcast of one
EndsSendOrUpload ==
  \/ /\ Len(committed') > Len(committed)
     /\ committed'[Len(committed')].kind \in {"send", "upload"}
     /\ \A t \in Tasks : pc'[t] = "bcast" => pc[t] = "bcast"
  \/ \E t \in Tasks :
       pc[t] = "bcast" /\ pc'[t] # "bcast" /\ bev[t].action = "new_message"

\* the push history only grows, and only in a step that ends the handling of a
\* send or an upload; edits, dropped edits, other actions, malformed payloads
\* and failed writes add nothing to it
NoPushWithoutSend ==
  /\ Len(pushLog') >= Len(pushLog) /\ SubSeq(pushLog', 1, Len(pushLog)) = pushLog
  /\ pushLog' # pushLog => EndsSendOrUpload
  /\ last' \in {"edit", "edit_dropped", "other", "persist_failed", "malformed"} =>
       pushLog' = pushLog
  /\ \A t \in Tasks :
       (pc[t] = "bcast" /\ pc'[t] # "bcast" /\ bev[t].action = "edit_message") =>
         pushLog' = pushLog

\* C17: a push is attempted only for a send or an upload, after its message is
\* committed and its broadcast is through; edits (rejected or not), other
\* actions and failed writes cause no push attempt.
PushOnlyAfterBroadcast == []PushedIsBroadcast /\ [][NoPushWithoutSend]_vars

\* C17 witness: a push has been attempted for a send, an edit has been committed
\* and broadcast, and no broadcast is in progress.
PushOnlyAfterBroadcastWitness ==
  /\ pushLog # <<>>
  /\ \E w \in DOMAIN committed : committed[w].kind = "edit"
  /\ \A t \in Tasks : pc[t] # "bcast"

\* number of push attempts for write w addressed to user u
PushCount(w, u) ==
  Cardinality({i \in DOMAIN pushLog : pushLog[i].w = w /\ pushLog[i].to = u})

\* one attempt per recipient of a send whose broadcast is over: the chat's members
\* other than the sender that have a token, and nobody else
OneAttemptPerRecipient ==
  \A w \in DOMAIN committed :
    committed[w].kind = "send" =>
      LET m == messages[committed[w].id] IN
      \A u \in Users :
        PushCount(w, u) =
          IF /\ BroadcastOver(w)
             /\ u \in ChatUsers(m.chat_id) /\ u # m.sender_id /\ tokens[u]
          THEN 1 ELSE 0

\* a step with a failed push attempt delivers and removes nothing and ends no task
FailedPushIsSwallowed ==
  (\E i \in DOMAIN pushLog' : i > Len(pushLog) /\ ~pushLog'[i].ok) =>
    /\ inbox' = inbox
    /\ rooms' = rooms
    /\ \A c \in Conns : pc'[c] = "closed" => pc[c] = "closed"

\* C18: for each send that is committed and broadcast, exactly one push is
\* attempted for every member of the chat other than the sender that has a
\* token, and none for anybody else; a failed attempt changes nothing that was
\* delivered and closes no connection.
PushOncePerRecipient == []OneAttemptPerRecipient /\ [][FailedPushIsSwallowed]_vars

\* C18 witness: the push of a send has failed; the event of the send is in the
\* sender's inbox and the sender's connection is receiving.
PushOncePerRecipientWitness ==
  \E i \in DOMAIN pushLog :
    /\ ~pushLog[i].ok
    /\ committed[pushLog[i].w].kind = "send"
    /\ \E c \in Conns :
         /\ pc[c] = "active"
         /\ \E j \in DOMAIN inbox[c] : inbox[c][j].w = pushLog[i].w
         /\ connUser[c] = messages[committed[pushLog[i].w].id].sender_id

\* C19: a new_message event carries a reply context only if the message it
\* replies to is a message of the same chat.
ReplyContextSameChat ==
  \A c \in Conns : \A i \in DOMAIN inbox[c] :
    LET e == inbox[c][i] IN
    (e.action = "new_message" /\ e.reply_to_text # NoText) =>
      /\ HasMessage(messages, messages[e.id].reply_to_id)
      /\ messages[messages[e.id].reply_to_id].chat_id = e.chat_id

\* sends of the event of task t's broadcast attempted on connection k so far
Attempts(t, k) == Count(inbox[k], bev[t]) + (IF k \in bfail[t] THEN 1 ELSE 0)

\* the loop attempts each member of the room at the start once, in snapshot
\* order, and nobody else, whatever has happened to the room since
SnapshotAttemptedOnce ==
  \A t \in Tasks :
    pc[t] = "bcast" =>
      /\ Range(bq[t]) \subseteq bmembers[t]
      /\ Cardinality(Range(bq[t])) = Len(bq[t])
      /\ \A k \in Conns :
           Attempts(t, k) = IF k \in bmembers[t] \ Range(bq[t]) THEN 1 ELSE 0

\* a broadcast ends only when it is through its snapshot
BroadcastRunsThrough ==
  \A t \in Tasks : (pc[t] = "bcast" /\ pc'[t] # "bcast") => bq[t] = <<>>

\* C20: a broadcast attempts delivery exactly once to each connection that was
\* in the room when it began, and to no other, whatever joins and leaves happen
\* while it is suspended; it never ends before it is through.
BroadcastAttemptsSnapshot == []SnapshotAttemptedOnce /\ [][BroadcastRunsThrough]_vars

\* C20 witness: a broadcast is suspended, and the connection it is to send to
\* next has closed and left the room since the broadcast began.
BroadcastAttemptsSnapshotWitness ==
  \E t \in Tasks :
    /\ pc[t] = "bcast" /\ bq[t] # <<>>
    /\ pc[Head(bq[t])] = "closed"
    /\ Head(bq[t]) \notin Members(rooms, connChat[t])
    /\ Head(bq[t]) \notin evicted

\* what a step that handles an action that is neither send nor edit leaves alone:
\* the messages, the commit and push histories, every inbox, broadcast and room,
\* every task's position and every channel
OtherActionFrame ==
  last' = "other" =>
    /\ messages' = messages
    /\ committed' = committed
    /\ pushLog' = pushLog
    /\ inbox' = inbox
    /\ bq' = bq /\ bev' = bev
    /\ rooms' = rooms
    /\ pc' = pc /\ alive' = alive
    /\ connChat' = connChat /\ connUser' = connUser
    /\ \E c \in Conns : pc'[c] = "active" /\ connUser'[c] \in Users

\* C21: an action that is neither send nor edit creates and changes no message,
\* broadcasts nothing, attempts no push, leaves every room as it was, and leaves
\* the connection Active, in the state in which it handles its next action.
OtherActionIgnored == [][OtherActionFrame]_vars

\* C21 witness: such an action has just been handled by a connection that is in
\* its room and has been delivered an event before.
OtherActionIgnoredWitness ==
  /\ last = "other"
  /\ \E c \in Conns :
       /\ pc[c] = "active" /\ connUser[c] \in Users
       /\ c \in Members(rooms, connChat[c])
       /\ inbox[c] # <<>>

\* C22: every chat connection whose task is still running (receiving, or in a
\* broadcast of its own) is a member of its room.
ActiveIsMember ==
  \A c \in Conns :
    pc[c] \in {"active", "bcast"} => c \in Members(rooms, connChat[c])

====
